---- MODULE Spec2Model ----
(***************************************************************************)
(* Model of Module B, the KPI engine (src/src/kpi_module/calculate_kpis.py) *)
(* of the stock analyzer: compute_kpis(df) over a pandas DataFrame.         *)
(*                                                                         *)
(* Numbers.  A float is modelled as an exact value of one of four kinds:    *)
(*   "fin"  the rational n/d (d > 0, lowest terms),                         *)
(*   "inf"  +infinity (n = 1) or -infinity (n = -1),                        *)
(*   "nan"  NaN, pandas' marker of a missing value,                         *)
(*   "sqrt" the non-negative real sqrt(n/d) (result of Series.std()).       *)
(* Arithmetic follows IEEE 754 on the special values (x/0, inf-inf, NaN     *)
(* propagation); finite results are exact, so binary rounding error of      *)
(* double precision is outside the model, as is the sign of zero.           *)
(*                                                                         *)
(* Tables.  A DataFrame is [columns |-> sequence of names,                  *)
(*                          data |-> [name |-> sequence of cell values]].   *)
(* DataFrames are objects: `heap` is the sequence of the tables allocated   *)
(* so far and a reference is an index into it.  heap[1] is the caller's     *)
(* table, the argument df of compute_kpis.                                  *)
(***************************************************************************)
EXTENDS Integers, Sequences, FiniteSets, TLC

VARIABLES heap, pc, ret, ss, run, prov, fetch, fetched

vars == <<heap, pc, ret, ss, run, prov, fetch, fetched>>

\* ---------------------------------------------------------------- bounds
\* longest table of which every content over Closes is enumerated
MaxLen == 5
\* the close prices of the enumerated tables are 0..MaxClose
MaxClose == 2

\* ------------------------------------------------------ integer helpers
Abs(x) == IF x < 0 THEN -x ELSE x

Max2(a, b) == IF a >= b THEN a ELSE b

Min2(a, b) == IF a <= b THEN a ELSE b

RECURSIVE GCD(_, _)
GCD(a, b) == IF b = 0 THEN a ELSE GCD(b, a % b)

RECURSIVE Pow10(_)
Pow10(k) == IF k = 0 THEN 1 ELSE 10 * Pow10(k - 1)

\* compares a/b with c/d (a, c >= 0; b, d > 0) by continued fractions, so
\* no product of the four is formed: -1, 0 or 1
RECURSIVE CmpFrac(_, _, _, _)
CmpFrac(a, b, c, d) ==
    LET qa == a \div b
        qc == c \div d
        ra == a % b
        rc == c % d
    IN  IF qa < qc THEN -1
        ELSE IF qa > qc THEN 1
        ELSE IF ra = 0 /\ rc = 0 THEN 0
        ELSE IF ra = 0 THEN -1
        ELSE IF rc = 0 THEN 1
        ELSE CmpFrac(d, rc, b, ra)

\* ------------------------------------------------------------- floats
NaN == [k |-> "nan", n |-> 0, d |-> 1]

PInf == [k |-> "inf", n |-> 1, d |-> 1]

NInf == [k |-> "inf", n |-> -1, d |-> 1]

Fin(n, d) ==
    LET s == IF d < 0 THEN -1 ELSE 1
        g == GCD(Abs(n), Abs(d))
    IN  [k |-> "fin", n |-> (s * n) \div g, d |-> (s * d) \div g]

Int2F(i) == [k |-> "fin", n |-> i, d |-> 1]

IsNaN(x) == x.k = "nan"

IsInf(x) == x.k = "inf"

IsFinite(x) == x.k \in {"fin", "sqrt"}

Sign(x) == IF x.n > 0 THEN 1 ELSE IF x.n < 0 THEN -1 ELSE 0

FNeg(x) == [x EXCEPT !.n = -x.n]

\* x + y
FAdd(x, y) ==
    IF IsNaN(x) \/ IsNaN(y) THEN NaN
    ELSE IF IsInf(x) /\ IsInf(y) THEN (IF x.n = y.n THEN x ELSE NaN)
    ELSE IF IsInf(x) THEN x
    ELSE IF IsInf(y) THEN y
    ELSE LET l == (x.d \div GCD(x.d, y.d)) * y.d
         IN  Fin(x.n * (l \div x.d) + y.n * (l \div y.d), l)

\* x - y
FSub(x, y) == FAdd(x, FNeg(y))

\* x * y
FMul(x, y) ==
    IF IsNaN(x) \/ IsNaN(y) THEN NaN
    ELSE IF IsInf(x) \/ IsInf(y)
         THEN (IF Sign(x) * Sign(y) = 0 THEN NaN
               ELSE IF Sign(x) * Sign(y) > 0 THEN PInf ELSE NInf)
    ELSE LET g1 == GCD(Abs(x.n), y.d)
             g2 == GCD(Abs(y.n), x.d)
         IN  Fin((x.n \div g1) * (y.n \div g2), (x.d \div g2) * (y.d \div g1))

\* x / y: a non-zero finite value over zero is an infinity, 0/0 is NaN
FDiv(x, y) ==
    IF IsNaN(x) \/ IsNaN(y) THEN NaN
    ELSE IF IsInf(x) /\ IsInf(y) THEN NaN
    ELSE IF IsInf(x) THEN (IF Sign(x) * Sign(y) >= 0 THEN PInf ELSE NInf)
    ELSE IF IsInf(y) THEN Int2F(0)
    ELSE IF y.n = 0
         THEN (IF x.n = 0 THEN NaN ELSE IF x.n > 0 THEN PInf ELSE NInf)
    ELSE FMul(x, Fin(y.d, y.n))

\* x < y on finite rationals
FLess(x, y) == x.n * y.d < y.n * x.d

\* sqrt(x): NaN for NaN and for negatives, +inf for +inf
FSqrt(x) ==
    IF IsNaN(x) THEN NaN
    ELSE IF IsInf(x) THEN (IF x.n > 0 THEN PInf ELSE NaN)
    ELSE IF x.n < 0 THEN NaN
    ELSE [k |-> "sqrt", n |-> x.n, d |-> x.d]

\* the integer nearest to n/d (d > 0), a tie going to the even neighbour
RoundHalfEven(n, d) ==
    LET f == n \div d
        r == n % d
    IN  IF 2 * r < d THEN f
        ELSE IF 2 * r > d THEN f + 1
        ELSE IF f % 2 = 0 THEN f ELSE f + 1

\* largest k in lo..hi with (2k-1)^2 / (4 * scale^2) <= n/d, that is with
\* k - 1/2 <= scale * sqrt(n/d); lo satisfies it
RECURSIVE SqrtSearch(_, _, _, _, _)
SqrtSearch(lo, hi, n, d, scale) ==
    IF lo = hi THEN lo
    ELSE LET mid == (lo + hi + 1) \div 2
         IN  IF CmpFrac((2 * mid - 1) * (2 * mid - 1), 4 * scale * scale, n, d) <= 0
             THEN SqrtSearch(mid, hi, n, d, scale)
             ELSE SqrtSearch(lo, mid - 1, n, d, scale)

\* largest k for which (2k+1)^2 is still a 32-bit integer: the model rounds
\* square roots up to SqrtLimit / scale
SqrtLimit == 23169

\* the integer nearest to scale * sqrt(n/d), a tie going to the even one
RoundSqrt(n, d, scale) ==
    LET k == SqrtSearch(0, SqrtLimit, n, d, scale)
        tie == k > 0
               /\ CmpFrac((2 * k - 1) * (2 * k - 1), 4 * scale * scale, n, d) = 0
    IN  IF tie /\ k % 2 = 1 THEN k - 1 ELSE k

\* Python's round(x, ndigits) on a float: NaN and the infinities are
\* returned as they are
round(x, ndigits) ==
    IF IsNaN(x) \/ IsInf(x) THEN x
    ELSE IF x.k = "sqrt"
         THEN Fin(RoundSqrt(x.n, x.d, Pow10(ndigits)), Pow10(ndigits))
    ELSE Fin(RoundHalfEven(x.n * Pow10(ndigits), x.d), Pow10(ndigits))

\* ------------------------------------------------------ pandas Series
\* the sum of the entries; exact, so the order of the additions is immaterial
RECURSIVE FSum(_)
FSum(s) ==
    IF Len(s) = 0 THEN Int2F(0)
    ELSE IF Len(s) = 1 THEN s[1]
    ELSE LET m == Len(s) \div 2
         IN  FAdd(FSum(SubSeq(s, 1, m)), FSum(SubSeq(s, m + 1, Len(s))))

NotNaN(x) == ~IsNaN(x)

\* the entries pandas' reductions see (skipna=True drops NaN, not inf)
DropNa(s) == SelectSeq(s, NotNaN)

\* Series.shift(1)
shift(s) == [i \in 1..Len(s) |-> IF i = 1 THEN NaN ELSE s[i - 1]]

\* returns whose missing entries are filled with 0
pct_change_fill_zero(s) ==
    LET prev == shift(s)
    IN  [i \in 1..Len(s) |->
            LET r == FSub(FDiv(s[i], prev[i]), Int2F(1))
            IN  IF IsNaN(r) THEN Int2F(0) ELSE r]

\* Series.pct_change(): s / s.shift(1) - 1
pct_change(s) ==
    LET prev == shift(s)
    IN  [i \in 1..Len(s) |-> FSub(FDiv(s[i], prev[i]), Int2F(1))]

\* a rolling mean with min_periods = 1: the rows before the window fills
\* hold the mean of the rows so far
rolling_mean_min_periods_1(s, window) ==
    [i \in 1..Len(s) |->
        LET lo  == Max2(1, i - window + 1)
            obs == DropNa(SubSeq(s, lo, i))
        IN  IF Len(obs) >= 1
            THEN FDiv(FSum(obs), Int2F(Len(obs)))
            ELSE NaN]

\* Series.rolling(window).mean() with min_periods = window: row i holds the
\* mean of the observations in the window ending at i once there are at
\* least `window` of them, NaN before
rolling_mean(s, window) ==
    [i \in 1..Len(s) |->
        LET lo  == Max2(1, i - window + 1)
            obs == DropNa(SubSeq(s, lo, i))
        IN  IF Len(obs) >= window
            THEN FDiv(FSum(obs), Int2F(Len(obs)))
            ELSE NaN]

\* a mean that guards its division: 0 for a series with no value
mean_zero_when_empty(s) ==
    LET xs == DropNa(s)
    IN  FDiv(FSum(xs), Int2F(Max2(1, Len(xs))))

\* Series.mean(): NaN for a series with no value
mean(s) ==
    LET xs == DropNa(s)
    IN  IF Len(xs) = 0 THEN NaN ELSE FDiv(FSum(xs), Int2F(Len(xs)))

\* the largest and the smallest of a non-empty series of finite values
FMaxSeq(s) ==
    CHOOSE x \in {s[i] : i \in 1..Len(s)} : \A i \in 1..Len(s) : ~FLess(x, s[i])

FMinSeq(s) ==
    CHOOSE x \in {s[i] : i \in 1..Len(s)} : \A i \in 1..Len(s) : ~FLess(s[i], x)

\* Series.max(): NaN for a series with no value
max(s) == IF Len(DropNa(s)) = 0 THEN NaN ELSE FMaxSeq(DropNa(s))

\* Series.min(): NaN for a series with no value
min(s) == IF Len(DropNa(s)) = 0 THEN NaN ELSE FMinSeq(DropNa(s))

\* the population standard deviation (ddof = 0)
std_population(s) ==
    LET xs    == DropNa(s)
        count == Len(xs)
    IN  IF count <= 0 THEN NaN
        ELSE LET avg == FDiv(FSum(xs), Int2F(count))
                 sqr == [i \in 1..count |->
                            FMul(FSub(avg, xs[i]), FSub(avg, xs[i]))]
             IN  FSqrt(FDiv(FSum(sqr), Int2F(count)))

\* a standard deviation that treats the infinities as missing, like NaN
std_skip_inf(s) ==
    LET xs    == SelectSeq(s, LAMBDA x : x.k = "fin")
        count == Len(xs)
    IN  IF count <= 1 THEN NaN
        ELSE LET avg == FDiv(FSum(xs), Int2F(count))
                 sqr == [i \in 1..count |->
                            FMul(FSub(avg, xs[i]), FSub(avg, xs[i]))]
             IN  FSqrt(FDiv(FSum(sqr), Int2F(count - 1)))

\* Series.std(): ddof = 1; NaN entries are skipped, infinities are not
std(s) ==
    LET xs    == DropNa(s)
        count == Len(xs)
        ddof  == 1
    IN  IF count <= ddof THEN NaN
        ELSE LET avg == FDiv(FSum(xs), Int2F(count))
                 sqr == [i \in 1..count |->
                            FMul(FSub(avg, xs[i]), FSub(avg, xs[i]))]
             IN  FSqrt(FDiv(FSum(sqr), Int2F(count - ddof)))

\* --------------------------------------------------- pandas DataFrame
Range(s) == {s[i] : i \in 1..Len(s)}

\* len(df)
len(t) ==
    IF Len(t.columns) = 0 THEN 0 ELSE Len(t.data[t.columns[1]])

\* no copy at all: the same object under a second name
DataFrame_alias(h, r) == [heap |-> h, ref |-> r]

\* df.copy(): a new object holding the same columns and cells
DataFrame_copy(h, r) == [heap |-> Append(h, h[r]), ref |-> Len(h) + 1]

\* df[name] = values on the object r: replaces the column, or appends it
setitem(h, r, name, values) ==
    LET t == h[r]
        cols == IF name \in Range(t.columns) THEN t.columns
                ELSE Append(t.columns, name)
    IN  [h EXCEPT ![r] =
            [columns |-> cols,
             data |-> [c \in Range(cols) |->
                          IF c = name THEN values ELSE t.data[c]]]]

\* df[[names]]: a new object holding the named columns, in that order
getitem_list(h, r, names) ==
    [heap |-> Append(h, [columns |-> names,
                         data |-> [c \in Range(names) |-> h[r].data[c]]]),
     ref |-> Len(h) + 1]

\* ------------------------------------------------------- compute_kpis
SMA_20_MAX == 20

SMA_20_MIN == 2

SMA_50_MAX == 50

SMA_50_MIN == 3

\* a short window without its lower limit of 2
sma_20_window_unclamped(data_length) ==
    Min2(SMA_20_MAX, data_length \div 2)

\* a short window taken from the row count itself, not from its half
sma_20_window_whole(data_length) ==
    Min2(SMA_20_MAX, Max2(SMA_20_MIN, data_length))

sma_20_window(data_length) ==
    Min2(SMA_20_MAX, Max2(SMA_20_MIN, data_length \div 2))

\* a long window taken from the row count itself, not from one less
sma_50_window_all_rows(data_length) ==
    Min2(SMA_50_MAX, Max2(SMA_50_MIN, data_length))

\* a long window of 50 rows whatever the row count
sma_50_window_fixed(data_length) == SMA_50_MAX

sma_50_window(data_length) ==
    Min2(SMA_50_MAX, Max2(SMA_50_MIN, data_length - 1))

\* a selection that also keeps the Date column
final_columns_with_date ==
    <<"Date", "Close", "Daily_Returns", "SMA_20", "SMA_50">>

\* the columns of the table handed to the charting module
final_columns == <<"Close", "Daily_Returns", "SMA_20", "SMA_50">>

\* scalars taken from the smoothed column of the working copy
scalar_source_smoothed(h, dfref, metrics_df) == h[metrics_df].data["SMA_20"]

\* the column of df the scalar metrics avg/max/min are taken from
scalar_source(h, dfref, metrics_df) == h[dfref].data["Close"]

\* the four rounded scalars
make_metrics_dict(avg_close, max_close, min_close, volatility) ==
    [avg_close  |-> round(avg_close, 2),
     max_close  |-> round(max_close, 2),
     min_close  |-> round(min_close, 2),
     volatility |-> round(volatility, 4)]

NoMetrics == [avg_close |-> NaN, max_close |-> NaN, min_close |-> NaN,
              volatility |-> NaN]

\* step 2 on the working copy f = [heap, ref]: the column Daily_Returns
add_daily_returns(f) ==
    [heap |-> setitem(f.heap, f.ref, "Daily_Returns",
                      pct_change(f.heap[f.ref].data["Close"])),
     ref |-> f.ref]

\* step 3 on the working copy: the column `name`, the rolling mean of the
\* closes over `window`
add_sma(f, name, window) ==
    [heap |-> setitem(f.heap, f.ref, name,
                      rolling_mean(f.heap[f.ref].data["Close"], window)),
     ref |-> f.ref]

\* step 3 with the two windows taken from the row count
add_smas(f, data_length) ==
    LET w20 == sma_20_window(data_length)
        w50 == sma_50_window(data_length)
        g   == add_sma(add_sma(f, "SMA_20", w20), "SMA_50", w50)
    IN  [heap |-> g.heap, metrics_df |-> g.ref,
         sma_20_window |-> w20, sma_50_window |-> w50]

with_row_count(f) == add_smas(f, len(f.heap[f.ref]))

\* steps 1 to 3 on a table that has a Close column: the working copy
\* metrics_df with the columns Daily_Returns, SMA_20 and SMA_50 added
derive_columns(h, dfref) ==
    with_row_count(add_daily_returns(DataFrame_copy(h, dfref)))

\* step 4, the three scalars of the closes, before rounding
close_scalars_of(src) ==
    [avg_close |-> mean(src), max_close |-> max(src), min_close |-> min(src)]

close_scalars(h, dfref, metrics_df) ==
    close_scalars_of(scalar_source(h, dfref, metrics_df))

\* step 5: df[[columns]].copy()
select_copy_of(sel) == DataFrame_copy(sel.heap, sel.ref)

select_copy(h, r, columns) == select_copy_of(getitem_list(h, r, columns))

returned(metrics_dict, final, dc) ==
    [status |-> "returned", exc |-> "", heap |-> final.heap,
     metrics_dict |-> metrics_dict, final_df |-> final.ref,
     sma_20_window |-> dc.sma_20_window,
     sma_50_window |-> dc.sma_50_window]

metrics_of(sc, volatility) ==
    make_metrics_dict(sc.avg_close, sc.max_close, sc.min_close, volatility)

\* steps 4 and 5 on the columns dc derived in steps 1 to 3
summarize(dc, dfref) ==
    returned(metrics_of(close_scalars(dc.heap, dfref, dc.metrics_df),
                        std(dc.heap[dc.metrics_df].data["Daily_Returns"])),
             select_copy(dc.heap, dc.metrics_df, final_columns),
             dc)

\* compute_kpis(df), df being the object dfref of heap h.  The outcome is
\* "returned" with the metrics and a reference to the new table, or
\* "raised" (KeyError: the table has no Close column) with neither.
compute_kpis(h, dfref) ==
    IF "Close" \notin Range(h[dfref].columns)
    THEN [status |-> "raised", exc |-> "KeyError",
          heap |-> DataFrame_copy(h, dfref).heap,
          metrics_dict |-> NoMetrics, final_df |-> 0,
          sma_20_window |-> 0, sma_50_window |-> 0]
    ELSE summarize(derive_columns(h, dfref), dfref)

\* ----------------------------------------------------- input tables
\* the columns stock_data returns, in its final order
stock_columns ==
    <<"Date", "Open", "High", "Low", "Close", "Adj Close", "Volume", "Currency">>

RemoveCol(cols, name) == SelectSeq(cols, LAMBDA c : c # name)

\* the table of a sequence of closes given in eighths of the currency unit
\* (so that prices have digits beyond the second decimal): row i is dated
\* i, every price column carries the close, the volume is 1000 * i
StockTable(closes, hasClose) ==
    LET n == Len(closes)
        cols == IF hasClose THEN stock_columns
                ELSE RemoveCol(stock_columns, "Close")
        price == [i \in 1..n |-> Fin(closes[i], 8)]
    IN  [columns |-> cols,
         data |-> [c \in Range(cols) |->
                     IF c = "Date" THEN [i \in 1..n |-> i]
                     ELSE IF c = "Volume" THEN [i \in 1..n |-> 1000 * i]
                     ELSE IF c = "Currency" THEN [i \in 1..n |-> "USD"]
                     ELSE price]]

Closes == 0..MaxClose

\* every series of at most MaxLen closes
ShortCloses == UNION {[1..n -> Closes] : n \in 0..MaxLen}

\* lengths around the points where the windows stop growing (40 and 51 rows)
LongLens == {39, 40, 41, 50, 51, 52, 200}

\* long series: 2, 1, 2, 1, ...
LongCloses == {[i \in 1..n |-> 1 + (i % 2)] : n \in LongLens}

InputTables ==
    {StockTable(c, TRUE) : c \in ShortCloses \cup LongCloses}
    \cup {StockTable(c, FALSE) : c \in {c \in ShortCloses : Len(c) <= 1}}

NoResult == [status |-> "none", exc |-> "", metrics_dict |-> NoMetrics,
             final_df |-> 0, sma_20_window |-> 0, sma_50_window |-> 0]

\* ------------------------------------------------------------ behaviour
Init ==
    /\ heap \in {<<t>> : t \in InputTables}
    /\ pc = "start"
    /\ ret = NoResult
    /\ ss = <<>> /\ run = <<>> /\ prov = <<>>
    /\ fetch = <<>> /\ fetched = <<>>

\* the caller's one call compute_kpis(df)
Call ==
    /\ pc = "start"
    /\ LET r == compute_kpis(heap, 1)
       IN  /\ heap' = r.heap
           /\ ret' = [status |-> r.status, exc |-> r.exc,
                      metrics_dict |-> r.metrics_dict,
                      final_df |-> r.final_df,
                      sma_20_window |-> r.sma_20_window,
                      sma_50_window |-> r.sma_50_window]
    /\ pc' = "done"
    /\ UNCHANGED <<ss, run, prov, fetch, fetched>>

Next == Call

Spec == Init /\ [][Next]_vars

\* =============================================================== claims
\* the caller's table, the table returned, and the rows of the input
Input == heap[1]

Done == pc = "done"

Returned == ret.status = "returned"

Out == heap[ret.final_df]

HasClose(t) == \E i \in 1..Len(t.columns) : t.columns[i] = "Close"

InClose == Input.data["Close"]

N == len(Input)

\* a call on a table of at least one row that has a Close column is over
CalledOnRows == Done /\ HasClose(Input) /\ N >= 1

\* lo <= x <= hi forced on x
Clamp(x, lo, hi) == IF x < lo THEN lo ELSE IF x > hi THEN hi ELSE x

\* the largest row count the window formulas are evaluated for
MaxRows == 300

\* C1: for a non-empty input with a Close column the call returns a table
\* of exactly the columns Close, Daily_Returns, SMA_20, SMA_50, each with
\* as many rows as the input has, and its Close column is the input's
\* Close column, row by row.
C1_DerivedTable ==
    CalledOnRows =>
        /\ Returned
        /\ Out.columns = <<"Close", "Daily_Returns", "SMA_20", "SMA_50">>
        /\ DOMAIN Out.data = {"Close", "Daily_Returns", "SMA_20", "SMA_50"}
        /\ \A c \in DOMAIN Out.data : Len(Out.data[c]) = N
        /\ \A i \in 1..N : Out.data["Close"][i] = InClose[i]

C1_Witness ==
    /\ CalledOnRows /\ Returned /\ N = 3
    /\ "Volume" \in Range(Input.columns)
    /\ "Volume" \notin Range(Out.columns)
    /\ InClose[1] # InClose[2]

\* C2: for every input length n >= 1 the short window is n \div 2 clamped
\* to 2..20 and the long window is n - 1 clamped to 3..50, whatever the
\* table holds.
C2_WindowFormulas ==
    /\ CalledOnRows =>
           /\ ret.sma_20_window = Clamp(N \div 2, 2, 20)
           /\ ret.sma_50_window = Clamp(N - 1, 3, 50)
    /\ \A n \in 1..MaxRows :
           /\ sma_20_window(n) = Clamp(n \div 2, 2, 20)
           /\ sma_50_window(n) = Clamp(n - 1, 3, 50)

C2_Witness ==
    /\ CalledOnRows /\ N = 41
    /\ ret.sma_20_window = 20
    /\ ret.sma_50_window = 40

\* C3 as stated: 5 rows give the windows 2 and 3, 200 rows give 20 and 50.
C3_AsStated ==
    /\ (CalledOnRows /\ N = 5) =>
           (ret.sma_20_window = 2 /\ ret.sma_50_window = 3)
    /\ (CalledOnRows /\ N = 200) =>
           (ret.sma_20_window = 20 /\ ret.sma_50_window = 50)

\* C3 amended: 5 rows give the windows 2 and 4 (the long window is
\* n - 1 = 4, not 3), 200 rows give 20 and 50.
C3_WindowExamples ==
    /\ (CalledOnRows /\ N = 5) =>
           (ret.sma_20_window = 2 /\ ret.sma_50_window = 4)
    /\ (CalledOnRows /\ N = 200) =>
           (ret.sma_20_window = 20 /\ ret.sma_50_window = 50)

C3_Witness ==
    /\ CalledOnRows /\ N = 5
    /\ ret.sma_20_window = 2
    /\ ret.sma_50_window = 4

\* C4 as stated: for a non-empty input neither window is larger than the
\* number of rows.
C4_WindowsWithinLength ==
    CalledOnRows => (ret.sma_20_window <= N /\ ret.sma_50_window <= N)

\* ------------------------------------------------ columns and scalars
DailyReturns == Out.data["Daily_Returns"]

SMA20 == Out.data["SMA_20"]

SMA50 == Out.data["SMA_50"]

Metrics == ret.metrics_dict

\* s[lo] + ... + s[hi]
RECURSIVE SumRange(_, _, _)
SumRange(s, lo, hi) ==
    IF lo > hi THEN Int2F(0)
    ELSE IF lo = hi THEN s[lo]
    ELSE LET m == (lo + hi) \div 2
         IN  FAdd(SumRange(s, lo, m), SumRange(s, m + 1, hi))

\* r is x rounded to `digits` decimals: a whole number of units 10^-digits,
\* at most half a unit from x, and an even number of units when exactly
\* half a unit from x
IsRounded(r, x, digits) ==
    /\ r.k = "fin" /\ x.k = "fin"
    /\ LET units == FMul(r, Int2F(Pow10(digits)))
           err   == FSub(FMul(x, Int2F(Pow10(digits))), units)
       IN  /\ units.d = 1
           /\ 2 * Abs(err.n) <= err.d
           /\ (2 * Abs(err.n) = err.d) => units.n % 2 = 0

\* a call on an empty table that has a Close column is over
CalledOnEmpty == Done /\ HasClose(Input) /\ N = 0

C6_DailyReturns ==
    CalledOnRows =>
        /\ Returned
        /\ IsNaN(DailyReturns[1])
        /\ \A i \in 2..N :
               LET p == InClose[i - 1]
                   c == InClose[i]
               IN  IF p.n # 0
                   THEN DailyReturns[i] =
                            Fin(c.n * p.d - p.n * c.d, p.n * c.d)
                   ELSE IF c.n = 0 THEN IsNaN(DailyReturns[i])
                   ELSE IsInf(DailyReturns[i])

C6_Witness ==
    /\ CalledOnRows /\ Returned /\ N = 3
    /\ IsNaN(DailyReturns[1])
    /\ DailyReturns[2] = Int2F(1)
    /\ DailyReturns[3] = Fin(-1, 2)

\* row i of a moving average over window w of the input closes is NaN
\* exactly when fewer than w rows end at i, and otherwise the mean of the
\* w closes ending at row i
IsTrailingMean(col, w) ==
    \A i \in 1..N :
        /\ IsNaN(col[i]) <=> i < w
        /\ i >= w => col[i] = FDiv(SumRange(InClose, i - w + 1, i), Int2F(w))

\* C7: SMA_20 and SMA_50 are the trailing means of the input closes over
\* the short and the long window, undefined exactly on the rows before the
\* window fills; for a single row SMA_20 is undefined.
C7_MovingAverages ==
    CalledOnRows =>
        /\ Returned
        /\ IsTrailingMean(SMA20, Clamp(N \div 2, 2, 20))
        /\ IsTrailingMean(SMA50, Clamp(N - 1, 3, 50))
        /\ N = 1 => IsNaN(SMA20[1])

C7_Witness ==
    /\ CalledOnRows /\ Returned /\ N = 5
    /\ IsNaN(SMA20[1]) /\ ~IsNaN(SMA20[2])
    /\ IsNaN(SMA50[3]) /\ ~IsNaN(SMA50[4])
    /\ SMA20[2] # SMA20[3]
    /\ SMA50[4] # SMA50[5]

\* x is the largest (smallest) of the input closes
IsMaxClose(x) ==
    /\ \E i \in 1..N : InClose[i] = x
    /\ \A i \in 1..N : ~FLess(x, InClose[i])

IsMinClose(x) ==
    /\ \E i \in 1..N : InClose[i] = x
    /\ \A i \in 1..N : ~FLess(InClose[i], x)

\* the closes 100, 101, 102, 103, 104 as the Close column of a table
ExampleTable ==
    [columns |-> <<"Date", "Close">>,
     data |-> [c \in {"Date", "Close"} |->
                  IF c = "Date" THEN [i \in 1..5 |-> i]
                  ELSE [i \in 1..5 |-> Int2F(99 + i)]]]

ExampleColumns == derive_columns(<<ExampleTable>>, 1)

ExampleScalars ==
    close_scalars(ExampleColumns.heap, 1, ExampleColumns.metrics_df)

ExampleMetrics ==
    [avg_close |-> round(ExampleScalars.avg_close, 2),
     max_close |-> round(ExampleScalars.max_close, 2),
     min_close |-> round(ExampleScalars.min_close, 2)]

\* C8: avg_close, max_close and min_close are the mean, the largest and the
\* smallest of the input closes, each rounded to 2 decimals; for the closes
\* 100..104 they are 102, 104 and 100.
C8_ScalarMetrics ==
    /\ CalledOnRows =>
           /\ Returned
           /\ IsRounded(Metrics.avg_close,
                        FDiv(SumRange(InClose, 1, N), Int2F(N)), 2)
           /\ \E x \in Range(InClose) :
                  IsMaxClose(x) /\ IsRounded(Metrics.max_close, x, 2)
           /\ \E x \in Range(InClose) :
                  IsMinClose(x) /\ IsRounded(Metrics.min_close, x, 2)
    /\ ExampleMetrics.avg_close = Int2F(102)
    /\ ExampleMetrics.max_close = Int2F(104)
    /\ ExampleMetrics.min_close = Int2F(100)

\* a call where rounding shows: the largest close is 0.125, reported as 0.12
C8_Witness ==
    /\ CalledOnRows /\ Returned /\ N = 3
    /\ InClose[1] # InClose[2]
    /\ Metrics.max_close # Metrics.min_close
    /\ \E x \in Range(InClose) : IsMaxClose(x) /\ Metrics.max_close # x
    /\ Metrics.avg_close # FDiv(SumRange(InClose, 1, N), Int2F(N))

\* ---------------------------------------------------------- volatility
\* the daily returns that are not NaN
Observed == SelectSeq(DailyReturns, LAMBDA x : x.k # "nan")

AllFinite(s) == \A i \in 1..Len(s) : s[i].k = "fin"

Squares(s) == [i \in 1..Len(s) |-> FMul(s[i], s[i])]

\* the sample variance of m >= 2 finite values:
\* (sum of squares - (sum)^2 / m) / (m - 1)
SampleVariance(s) ==
    LET m  == Len(s)
        s1 == SumRange(s, 1, m)
        s2 == SumRange(Squares(s), 1, m)
    IN  FDiv(FSub(s2, FDiv(FMul(s1, s1), Int2F(m))), Int2F(m - 1))

\* v is sqrt(var) rounded to 4 decimals: v = k / 10^4 for a whole k >= 0
\* with (k - 1/2)^2 <= 10^8 * var <= (k + 1/2)^2
IsRoundedRoot(v, var) ==
    /\ v.k = "fin" /\ var.k = "fin" /\ var.n >= 0
    /\ LET units == FMul(v, Int2F(10000))
           k     == units.n
       IN  /\ units.d = 1
           /\ k >= 0
           /\ k > 0 => CmpFrac((2 * k - 1) * (2 * k - 1), 400000000,
                               var.n, var.d) <= 0
           /\ CmpFrac(var.n, var.d,
                      (2 * k + 1) * (2 * k + 1), 400000000) <= 0

\* C9: volatility is the sample standard deviation (denominator count - 1)
\* of the daily returns that are not NaN, rounded to 4 decimals; it is NaN,
\* and the call raises nothing, when fewer than 2 such returns exist, as
\* for every input of 1 or 2 rows.
C9_Volatility ==
    CalledOnRows =>
        /\ Returned
        /\ Len(Observed) < 2 => IsNaN(Metrics.volatility)
        /\ N <= 2 => IsNaN(Metrics.volatility)
        /\ (Len(Observed) >= 2 /\ AllFinite(Observed)) =>
               IsRoundedRoot(Metrics.volatility, SampleVariance(Observed))

\* a call whose returns hold a NaN after the first row and leave 2 values
C9_Witness ==
    /\ CalledOnRows /\ Returned /\ N = 4
    /\ IsNaN(DailyReturns[4])
    /\ Len(Observed) = 2
    /\ Metrics.volatility.k = "fin"
    /\ Metrics.volatility.n > 0

\* some row follows a close of 0
ZeroPriorClose == \E i \in 2..N : InClose[i - 1].n = 0

\* C10 as stated: when some Close[i-1] is 0 the call returns, Daily_Returns[i]
\* is not finite, and the returned volatility is not finite either.
C10_AsStated ==
    (Done /\ HasClose(Input) /\ ZeroPriorClose) =>
        /\ Returned
        /\ \A i \in 2..N :
               InClose[i - 1].n = 0 => DailyReturns[i].k \in {"inf", "nan"}
        /\ Metrics.volatility.k \in {"inf", "nan"}

\* C10 amended: when some Close[i-1] is 0 the call returns and
\* Daily_Returns[i] is not finite: an infinity when Close[i] is not 0, NaN
\* when Close[i] is 0 too.  An infinite return makes the volatility NaN; a
\* NaN return is skipped like the first row's, so without an infinite
\* return the volatility is that of the remaining returns, finite when at
\* least 2 remain and NaN otherwise.
C10_ZeroPriorClose ==
    (Done /\ HasClose(Input) /\ ZeroPriorClose) =>
        /\ Returned
        /\ \A i \in 2..N :
               InClose[i - 1].n = 0 =>
                   IF InClose[i].n = 0 THEN IsNaN(DailyReturns[i])
                   ELSE IsInf(DailyReturns[i])
        /\ (\E i \in 1..N : IsInf(DailyReturns[i])) =>
               IsNaN(Metrics.volatility)
        /\ (\A i \in 1..N : ~IsInf(DailyReturns[i])) =>
               IF Len(Observed) >= 2
               THEN IsRoundedRoot(Metrics.volatility,
                                  SampleVariance(Observed))
               ELSE IsNaN(Metrics.volatility)

\* a call with an infinite return among at least 2 returns that are not NaN
C10_Witness ==
    /\ Done /\ HasClose(Input) /\ ZeroPriorClose /\ Returned
    /\ N = 4
    /\ IsInf(DailyReturns[2])
    /\ DailyReturns[3].k = "fin"
    /\ DailyReturns[4].k = "fin"
    /\ IsNaN(Metrics.volatility)

\* ------------------------------------------------- effect on the input
\* the rows of a column that hold a value
DefinedRows(col) == {i \in 1..Len(col) : ~IsNaN(col[i])}

\* C11: a call leaves the caller's table as it was (same columns, same
\* cells, no Daily_Returns or SMA column added), and the table it returns
\* is an object allocated during the call, distinct from the caller's, so
\* that writing to it later cannot reach the input.
C11_InputUntouched ==
    [][(pc = "start" /\ pc' = "done") =>
          /\ heap'[1] = heap[1]
          /\ \A c \in {"Daily_Returns", "SMA_20", "SMA_50"} :
                 c \notin Range(heap'[1].columns)
          /\ ret'.status = "returned" =>
                 /\ ret'.final_df \notin 1..Len(heap)
                 /\ ret'.final_df \in 1..Len(heap')]_vars

\* a returned table with the derived columns next to an input without them
C11_Witness ==
    /\ CalledOnRows /\ Returned /\ N = 3
    /\ ret.final_df # 1
    /\ "Daily_Returns" \in Range(Out.columns)
    /\ "Daily_Returns" \notin Range(Input.columns)
    /\ ~IsNaN(Out.data["SMA_20"][3])

\* C13: for an input of n >= 3 rows neither moving average is undefined
\* throughout: with w the window used, the column has exactly n - w + 1
\* >= 1 defined rows, and they are the last ones.
C13_SomeRowsDefined ==
    (CalledOnRows /\ N >= 3) =>
        /\ Returned
        /\ Cardinality(DefinedRows(SMA20)) = N - ret.sma_20_window + 1
        /\ Cardinality(DefinedRows(SMA50)) = N - ret.sma_50_window + 1
        /\ N - ret.sma_20_window + 1 >= 1
        /\ N - ret.sma_50_window + 1 >= 1
        /\ DefinedRows(SMA20) = ret.sma_20_window..N
        /\ DefinedRows(SMA50) = ret.sma_50_window..N

\* three rows: the long average is defined on the last row only
C13_Witness ==
    /\ CalledOnRows /\ Returned /\ N = 3
    /\ DefinedRows(SMA50) = {3}
    /\ DefinedRows(SMA20) = {2, 3}

\* C14: for every input length n >= 1 the short window is smaller than
\* the long one, so every row on which SMA_50 is defined has SMA_20
\* defined too.
C14_ShortBelowLong ==
    /\ \A n \in 1..MaxRows : sma_20_window(n) < sma_50_window(n)
    /\ CalledOnRows =>
           /\ Returned
           /\ ret.sma_20_window < ret.sma_50_window
           /\ DefinedRows(SMA50) \subseteq DefinedRows(SMA20)

\* 41 rows: windows 20 and 40, SMA_50 defined on the last two rows
C14_Witness ==
    /\ CalledOnRows /\ Returned /\ N = 41
    /\ ret.sma_20_window = 20 /\ ret.sma_50_window = 40
    /\ DefinedRows(SMA50) = {40, 41}

\* ------------------------------------------------------ dates and text
\* the i-th character of a string
Char(s, i) == SubSeq(s, i, i)

DigitChars == <<"0", "1", "2", "3", "4", "5", "6", "7", "8", "9">>

IsDigit(c) == \E i \in 1..Len(DigitChars) : DigitChars[i] = c

IsNonZeroDigit(c) == IsDigit(c) /\ c # "0"

\* the value of a digit; a blank counts as 0
DigitVal(c) ==
    IF IsDigit(c)
    THEN (CHOOSE i \in 1..Len(DigitChars) : DigitChars[i] = c) - 1
    ELSE 0

RECURSIVE NumVal(_)
\* int(s) of a string of digits
NumVal(s) ==
    IF Len(s) = 0 THEN 0
    ELSE 10 * NumVal(SubSeq(s, 1, Len(s) - 1)) + DigitVal(Char(s, Len(s)))

\* n written in two digits
Pad2(n) ==
    DigitChars[((n \div 10) % 10) + 1] \o DigitChars[(n % 10) + 1]

\* n written in four digits
Pad4(n) == Pad2(n \div 100) \o Pad2(n % 100)

IsLeap(y) == (y % 4 = 0 /\ y % 100 # 0) \/ y % 400 = 0

DaysInMonth(y, m) ==
    IF m = 2 THEN (IF IsLeap(y) THEN 29 ELSE 28)
    ELSE IF m \in {4, 6, 9, 11} THEN 30 ELSE 31

Date(y, m, d) == [ok |-> TRUE, y |-> y, m |-> m, d |-> d]

\* the outcome of a parse that raises ValueError
NoDate == [ok |-> FALSE, y |-> 0, m |-> 0, d |-> 0]

\* %m: 1[0-2], 0[1-9] or [1-9], tried in this order; the number of
\* characters taken from position 6, 0 when none fits
month_width(s) ==
    IF /\ Len(s) >= 7
       /\ \/ Char(s, 6) = "1" /\ Char(s, 7) \in {"0", "1", "2"}
          \/ Char(s, 6) = "0" /\ IsNonZeroDigit(Char(s, 7))
    THEN 2
    ELSE IF Len(s) >= 6 /\ IsNonZeroDigit(Char(s, 6)) THEN 1 ELSE 0

\* %d: 3[01], [12]\d, 0[1-9], [1-9] or a blank and [1-9], tried in this
\* order; the number of characters taken from position p
day_width(s, p) ==
    IF /\ Len(s) >= p + 1
       /\ \/ Char(s, p) = "3" /\ Char(s, p + 1) \in {"0", "1"}
          \/ Char(s, p) \in {"1", "2"} /\ IsDigit(Char(s, p + 1))
          \/ Char(s, p) = "0" /\ IsNonZeroDigit(Char(s, p + 1))
    THEN 2
    ELSE IF Len(s) >= p /\ IsNonZeroDigit(Char(s, p)) THEN 1
    ELSE IF /\ Len(s) >= p + 1
            /\ Char(s, p) = " "
            /\ IsNonZeroDigit(Char(s, p + 1))
    THEN 2 ELSE 0

\* datetime(y, m, d): the fields must name a day of the calendar
make_date(y, m, d) ==
    IF y >= 1 /\ d <= DaysInMonth(y, m) THEN Date(y, m, d) ELSE NoDate

\* the day field, and the rule that nothing may follow it
strptime_day(s, mw, dw) ==
    IF dw = 0 \/ Len(s) # 6 + mw + dw THEN NoDate
    ELSE make_date(NumVal(SubSeq(s, 1, 4)),
                   NumVal(SubSeq(s, 6, 5 + mw)),
                   NumVal(SubSeq(s, 7 + mw, 6 + mw + dw)))

\* the month field and the dash after it
strptime_month(s, mw) ==
    IF mw = 0 \/ Len(s) < 6 + mw \/ Char(s, 6 + mw) # "-" THEN NoDate
    ELSE strptime_day(s, mw, day_width(s, 7 + mw))

\* datetime.strptime(s, "%Y-%m-%d"): %Y is exactly four digits
strptime(s) ==
    IF /\ Len(s) >= 5
       /\ \A i \in 1..4 : IsDigit(Char(s, i))
       /\ Char(s, 5) = "-"
    THEN strptime_month(s, month_width(s))
    ELSE NoDate

\* d.strftime("%Y-%m-%d"), for years of four digits
strftime(d) == Pad4(d.y) \o "-" \o Pad2(d.m) \o "-" \o Pad2(d.d)

PrevDay(d) ==
    IF d.d > 1 THEN Date(d.y, d.m, d.d - 1)
    ELSE IF d.m > 1 THEN Date(d.y, d.m - 1, DaysInMonth(d.y, d.m - 1))
    ELSE Date(d.y - 1, 12, 31)

NextDay(d) ==
    IF d.d < DaysInMonth(d.y, d.m) THEN Date(d.y, d.m, d.d + 1)
    ELSE IF d.m < 12 THEN Date(d.y, d.m + 1, 1)
    ELSE Date(d.y + 1, 1, 1)

RECURSIVE MinusDays(_, _)
\* d - timedelta(days=n)
MinusDays(d, n) == IF n = 0 THEN d ELSE MinusDays(PrevDay(d), n - 1)

RECURSIVE PlusDays(_, _)
PlusDays(d, n) == IF n = 0 THEN d ELSE PlusDays(NextDay(d), n - 1)

SecondsPerDay == 86400

\* datetime.fromtimestamp(ts).strftime("%Y-%m-%d %H:%M:%S"), the local
\* time zone being UTC
fromtimestamp_strftime(ts) ==
    strftime(PlusDays(Date(1970, 1, 1), ts \div SecondsPerDay))
        \o " " \o Pad2((ts % SecondsPerDay) \div 3600)
        \o ":" \o Pad2((ts % 3600) \div 60)
        \o ":" \o Pad2(ts % 60)

\* ----------------------------------------------------------- fetch_news
\* x or default: an absent, None or empty field gives the default
OrDefault(x, default) == IF x = "" THEN default ELSE x

\* the article built from one raw item (lines 79-91)
article_of(item) ==
    [title |-> OrDefault(item.headline, "No title available"),
     publisher |-> OrDefault(item.source, "Unknown publisher"),
     summary |-> OrDefault(item.summary, "No summary available"),
     link |-> OrDefault(item.url, "No link available"),
     published |-> IF item.datetime # 0
                   THEN fromtimestamp_strftime(item.datetime)
                   ELSE "Unknown date"]

\* xs[:k]
slice_to(xs, k) ==
    IF k >= 0 THEN SubSeq(xs, 1, Min2(k, Len(xs)))
    ELSE SubSeq(xs, 1, Max2(0, Len(xs) + k))

\* what a call of fetch_news leaves: how it ended, the list returned and
\* the HTTP requests issued
FetchResult(status, articles, requests) ==
    [status |-> status, articles |-> articles, requests |-> requests]

\* the loop of lines 76-93
convert(items) == [i \in 1..Len(items) |-> article_of(items[i])]

\* response.json() or []: a null body counts as an empty list
json_or_empty(http) == IF http.json = <<>> THEN <<>> ELSE http.json[1]

\* lines 64-96, given the response
on_response(http, max_items, requests) ==
    IF http.status_code # 200 THEN FetchResult("returned", <<>>, requests)
    ELSE IF ~http.is_json
    THEN FetchResult("raised", <<>>, requests)
    ELSE FetchResult("returned",
                     convert(slice_to(json_or_empty(http), max_items)),
                     requests)

\* lines 57-62: the one requests.get
on_request(http, max_items, params) ==
    IF http.raises THEN FetchResult("returned", <<>>, <<params>>)
    ELSE on_response(http, max_items, <<params>>)

\* fetch_news(ticker, start_date, end_date, max_items), the environment
\* (FINNHUB_API_KEY, the outcome of the request) being env
fetch_news(ticker, start_date, end_date, max_items, env) ==
    IF ~strptime(start_date).ok \/ ~strptime(end_date).ok
    THEN FetchResult("returned", <<>>, <<>>)
    ELSE IF env.api_key = <<>> \/ env.api_key = <<"">>
    THEN FetchResult("returned", <<>>, <<>>)
    ELSE on_request(env.http, max_items,
                    [symbol |-> ticker, from |-> start_date,
                     to |-> end_date, token |-> env.api_key[1]])

\* ---- inputs of fetch_news
MaxItems == 3

MaxRaw == 3

\* a complete item, and one whose fields are all absent or empty
RawItems ==
    {[headline |-> "h1", source |-> "s1", summary |-> "t1", url |-> "u1",
      datetime |-> 3 * SecondsPerDay + 3723],
     [headline |-> "", source |-> "", summary |-> "", url |-> "u2",
      datetime |-> 0]}

RawLists == UNION {[1..n -> RawItems] : n \in 0..MaxRaw}

\* FINNHUB_API_KEY: unset, empty, set
ApiKeys == {<<>>, <<"">>, <<"k">>}

Http(raises, status_code, is_json, json) ==
    [raises |-> raises, status_code |-> status_code,
     is_json |-> is_json, json |-> json]

\* the request raises; an error status; 200 with a body that is not
\* JSON; 200 with null; 200 with a list
HttpOutcomes ==
    {Http(TRUE, 0, FALSE, <<>>), Http(FALSE, 401, TRUE, <<>>),
     Http(FALSE, 500, FALSE, <<>>), Http(FALSE, 200, FALSE, <<>>),
     Http(FALSE, 200, TRUE, <<>>)}
    \cup {Http(FALSE, 200, TRUE, <<l>>) : l \in RawLists}

DateStrings ==
    {"2024-01-15", "2024-1-5", "2024/01/15", "2024-02-30", ""}

FetchCalls ==
    [ticker : {"A"}, start_date : DateStrings, end_date : DateStrings,
     max_items : 1..MaxItems, api_key : ApiKeys, http : HttpOutcomes]

\* ---- one call of fetch_news
InitNews ==
    /\ fetch \in FetchCalls
    /\ fetched = <<>>
    /\ pc = "fetch"
    /\ heap = <<>> /\ ret = NoResult
    /\ ss = <<>> /\ run = <<>> /\ prov = <<>>

CallNews ==
    /\ pc = "fetch"
    /\ fetched' = fetch_news(fetch.ticker, fetch.start_date, fetch.end_date,
                             fetch.max_items,
                             [api_key |-> fetch.api_key, http |-> fetch.http])
    /\ pc' = "fetched"
    /\ UNCHANGED <<heap, ret, ss, run, prov, fetch>>

NextNews == CallNews

SpecNews == InitNews /\ [][NextNews]_vars

\* ---- claims on fetch_news
Fetched == pc = "fetched"

\* the written form YYYY-MM-DD: four digits, a dash, two digits, a dash,
\* two digits
IsYMD(s) ==
    /\ Len(s) = 10
    /\ \A i \in {1, 2, 3, 4, 6, 7, 9, 10} : IsDigit(Char(s, i))
    /\ Char(s, 5) = "-" /\ Char(s, 8) = "-"

KeyMissing == fetch.api_key = <<>> \/ fetch.api_key = <<"">>

BadDates == ~IsYMD(fetch.start_date) \/ ~IsYMD(fetch.end_date)

RequestFails == fetch.http.raises \/ fetch.http.status_code # 200

\* the list the API returned
ApiList ==
    IF fetch.http.json = <<>> THEN <<>> ELSE fetch.http.json[1]

\* C20: fetch_news returns the empty list, raising nothing, when a date
\* is not written YYYY-MM-DD, when the API key is unset or empty, when the
\* request raises and when the status is not 200; in the first two cases
\* no request is issued; in every other case it returns at most max_items
\* articles, in the order of the API's list.
C20_AsStated ==
    Fetched =>
        /\ (BadDates \/ KeyMissing \/ RequestFails) =>
               fetched.status = "returned" /\ fetched.articles = <<>>
        /\ (BadDates \/ KeyMissing) => fetched.requests = <<>>
        /\ ~(BadDates \/ KeyMissing \/ RequestFails) =>
               /\ fetched.status = "returned"
               /\ Len(fetched.articles) <= fetch.max_items
               /\ Len(fetched.articles) <= Len(ApiList)
               /\ \A i \in 1..Len(fetched.articles) :
                      fetched.articles[i] = article_of(ApiList[i])

\* --------------------------------------------------- analyze_articles
\* s.strip(), for blanks
RECURSIVE strip(_)
strip(s) ==
    IF Len(s) > 0 /\ Char(s, 1) = " " THEN strip(SubSeq(s, 2, Len(s)))
    ELSE IF Len(s) > 0 /\ Char(s, Len(s)) = " "
    THEN strip(SubSeq(s, 1, Len(s) - 1))
    ELSE s

build_text_from_article(article) ==
    strip(article.title \o ". " \o article.summary)

\* 0 = negative, 1 = neutral, 2 = positive
id2label == <<"negative", "neutral", "positive">>

decision_of(raw_label) ==
    IF raw_label = "positive" THEN "BUY"
    ELSE IF raw_label = "neutral" THEN "HOLD" ELSE "SELL"

Prediction(sentiment, raw_label, score) ==
    [sentiment |-> sentiment, raw_label |-> raw_label, score |-> score]

\* net is the network: the class and the confidence it gives each text
predict_sentiment_for_text(text, net) ==
    IF text = "" THEN Prediction("HOLD", "neutral", Int2F(0))
    ELSE Prediction(decision_of(id2label[net.class[text] + 1]),
                    id2label[net.class[text] + 1],
                    round(net.confidence[text], 4))

\* article.copy() with the three fields of the prediction added
enriched(article, prediction) ==
    [title |-> article.title, publisher |-> article.publisher,
     summary |-> article.summary, link |-> article.link,
     published |-> article.published,
     sentiment |-> prediction.sentiment,
     raw_label |-> prediction.raw_label, score |-> prediction.score]

\* an analysis that skips the articles the network finds neutral
analyze_articles_opinions_only(articles, net) ==
    [status |-> "returned",
     result |->
        SelectSeq([i \in 1..Len(articles) |->
                      enriched(articles[i],
                               predict_sentiment_for_text(
                                   build_text_from_article(articles[i]),
                                   net))],
                  LAMBDA a : a.sentiment # "HOLD")]

\* analyze_articles(articles); the network may fail on a text
analyze_articles(articles, net) ==
    IF net.raises /\ Len(articles) > 0
    THEN [status |-> "raised", result |-> <<>>]
    ELSE [status |-> "returned",
          result |-> [i \in 1..Len(articles) |->
                         enriched(articles[i],
                                  predict_sentiment_for_text(
                                      build_text_from_article(articles[i]),
                                      net))]]

\* ------------------------------------------------- app.py: the session
None == <<>>

Some(v) == <<v>>

SessionState(key, stock_df, metrics_dict, metrics_df, news, sentiment) ==
    [last_cache_key |-> key, stock_df |-> stock_df,
     metrics_dict |-> metrics_dict, metrics_df |-> metrics_df,
     news_articles |-> news, sentiment_articles |-> sentiment]

\* lines 119-130
NoSession == SessionState(None, None, None, None, None, None)

CachedFields ==
    {"stock_df", "metrics_dict", "metrics_df", "news_articles",
     "sentiment_articles"}

\* f"{ticker}_{period}_{interval}"
cache_key(ticker, period, interval) ==
    ticker \o "_" \o period \o "_" \o interval

\* a clearing that forgets the news
clear_cache_keeps_news(s, key) ==
    IF s.last_cache_key # Some(key)
    THEN SessionState(Some(key), None, None, None, s.news_articles, None)
    ELSE s

\* lines 133-139
clear_cache(s, key) ==
    IF s.last_cache_key # Some(key)
    THEN SessionState(Some(key), None, None, None, None, None)
    ELSE s

\* df.empty
empty(t) == Len(t.columns) = 0 \/ len(t) = 0

\* what one run of the script has done so far: the session, the module
\* functions called (in order), the cached fields assigned, the sections
\* run, what the chart and sentiment sections came to; and how the run
\* began: the key of the run before, whether a cached value was dropped,
\* and whether the cache was empty under the new key when MODULE 1 began
Ctx(s, key, before) ==
    [ss |-> s, calls |-> <<>>, assigned |-> {}, sections |-> {},
     previous_key |-> before.last_cache_key,
     dropped |-> \E f \in CachedFields : before[f] # None /\ s[f] = None,
     cleared |-> /\ s.last_cache_key = Some(key)
                 /\ \A f \in CachedFields : s[f] = None,
     chart |-> "none", total |-> None, percent |-> None]

\* lines 117-139
begin_run(s, key) == Ctx(clear_cache(s, key), key, s)

called(c, name, section) ==
    [c EXCEPT !.calls = Append(@, name), !.sections = @ \cup {section}]

shown(c, section) == [c EXCEPT !.sections = @ \cup {section}]

\* ---- MODULE 1 (lines 144-162); stock is what stock_data does when
\* called: None when it raises, else the table it returns
\* a section that loads the data whenever it is shown
needs_stock_always(c, inp) == inp.show_data

needs_stock(c, inp) ==
    /\ inp.show_data
    /\ (c.ss.stock_df = None \/ empty(c.ss.stock_df[1]))

stock_loaded(c, stock) ==
    IF stock = None THEN called(c, "stock_data", "data")
    ELSE [called(c, "stock_data", "data") EXCEPT
             !.ss.stock_df = stock,
             !.assigned = @ \cup {"stock_df"}]

module1(c, inp, stock) ==
    IF ~inp.show_data THEN c
    ELSE IF needs_stock(c, inp) THEN stock_loaded(c, stock)
    ELSE shown(c, "data")

\* ---- MODULE 2 (lines 167-200)
kpis_computed(c, r) ==
    IF r.status = "raised" THEN called(c, "compute_kpis", "kpi")
    ELSE [called(c, "compute_kpis", "kpi") EXCEPT
             !.ss.stock_df = Some(r.heap[1]),
             !.ss.metrics_dict = Some(r.metrics_dict),
             !.ss.metrics_df = Some(r.heap[r.final_df]),
             !.assigned = @ \cup {"metrics_dict", "metrics_df"}]

\* a section that computes the metrics on every run
needs_kpis_always(s) == TRUE

needs_kpis(s) == s.metrics_dict = None

module2(c, inp) ==
    IF ~(inp.show_kpi /\ inp.show_data) THEN c
    ELSE IF c.ss.stock_df # None /\ ~empty(c.ss.stock_df[1])
    THEN IF needs_kpis(c.ss)
         THEN kpis_computed(c, compute_kpis(<<c.ss.stock_df[1]>>, 1))
         ELSE shown(c, "kpi")
    ELSE shown(c, "kpi")

\* ---- MODULE 3 (lines 205-236): the Date column of the stock table is
\* attached to a copy of the derived table, which raises when there is
\* no stock table, no Date column, or another number of rows
date_attached(s) ==
    IF \/ s.stock_df = None
       \/ "Date" \notin Range(s.stock_df[1].columns)
    THEN "error"
    ELSE IF Len(s.stock_df[1].data["Date"]) # len(s.metrics_df[1])
    THEN "error" ELSE "rendered"

module3(c, inp) ==
    IF ~(inp.show_charts /\ inp.show_data /\ inp.show_kpi) THEN c
    ELSE IF c.ss.metrics_df # None /\ ~empty(c.ss.metrics_df[1])
    THEN [shown(c, "charts") EXCEPT !.chart = date_attached(c.ss)]
    ELSE shown(c, "charts")

\* ---- MODULE 4 (lines 241-285); env is the environment of fetch_news
\* and the day the script runs
period_days_map == [p \in {"5d", "1mo"} |-> IF p = "5d" THEN 5 ELSE 30]

days_back(period) ==
    IF period \in DOMAIN period_days_map THEN period_days_map[period]
    ELSE 30

news_fetched(c, r) ==
    IF r.status = "raised" THEN called(c, "fetch_news", "news")
    ELSE [called(c, "fetch_news", "news") EXCEPT
             !.ss.news_articles = Some(r.articles),
             !.assigned = @ \cup {"news_articles"}]

\* a section that also fetches again when the cached list is empty
needs_news_when_empty(s) ==
    s.news_articles = None \/ s.news_articles = Some(<<>>)

needs_news(s) == s.news_articles = None

module4(c, inp, env) ==
    IF ~inp.show_news THEN c
    ELSE IF needs_news(c.ss)
    THEN news_fetched(c,
             fetch_news(inp.ticker,
                        strftime(MinusDays(env.today,
                                           days_back(inp.period))),
                        strftime(env.today),
                        inp.max_news_items,
                        env))
    ELSE shown(c, "news")

\* ---- MODULE 5 (lines 290-340)
count_of(articles, label) ==
    Cardinality({i \in 1..Len(articles) : articles[i].sentiment = label})

\* lines 305-319: 100 * count // total raises when total is 0
percentages(c, articles) ==
    [c EXCEPT
        !.total = Some(Len(articles)),
        !.percent =
            IF Len(articles) = 0 THEN None
            ELSE Some([l \in {"BUY", "HOLD", "SELL"} |->
                          (100 * count_of(articles, l))
                              \div Len(articles)])]

sentiment_analyzed(c, r) ==
    IF r.status = "raised" THEN called(c, "analyze_articles", "sentiment")
    ELSE percentages(
             [called(c, "analyze_articles", "sentiment") EXCEPT
                 !.ss.sentiment_articles = Some(r.result),
                 !.assigned = @ \cup {"sentiment_articles"}],
             r.result)

needs_sentiment(c, inp) ==
    /\ inp.show_sentiment /\ inp.show_news
    /\ c.ss.news_articles # None /\ c.ss.news_articles # Some(<<>>)
    /\ c.ss.sentiment_articles = None

module5(c, inp, net) ==
    IF ~(inp.show_sentiment /\ inp.show_news) THEN c
    ELSE IF c.ss.news_articles # None /\ c.ss.news_articles # Some(<<>>)
    THEN IF c.ss.sentiment_articles = None
         THEN sentiment_analyzed(c,
                  analyze_articles(c.ss.news_articles[1], net))
         ELSE percentages(shown(c, "sentiment"),
                          c.ss.sentiment_articles[1])
    ELSE shown(c, "sentiment")

\* ---- inputs of a run
Tickers == {"A", "A_5d"}

Periods == {"5d"}

Intervals == {"1d"}

\* the slider offers 1..20
MaxSlider == 2

Sliders == 1..MaxSlider

\* what stock_data may do: raise, or return a table (possibly with no
\* row left, possibly without a Close column)
StockOutcomes ==
    {None}
    \cup {Some(StockTable(c, TRUE)) : c \in {<<>>, <<2, 1, 2>>}}
    \cup {Some(StockTable(<<1>>, FALSE))}

NewsList ==
    <<CHOOSE i \in RawItems : i.headline # "",
      CHOOSE i \in RawItems : i.headline = "">>

\* a request that fails; a body that is not JSON; a list of two items
NewsEnvs ==
    {[api_key |-> Some("k"), http |-> Http(TRUE, 0, FALSE, None),
      today |-> Date(2024, 3, 1)],
     [api_key |-> Some("k"), http |-> Http(FALSE, 200, FALSE, None),
      today |-> Date(2025, 1, 3)],
     [api_key |-> Some("k"), http |-> Http(FALSE, 200, TRUE, Some(NewsList)),
      today |-> Date(2025, 1, 3)]}

Texts == {build_text_from_article(article_of(i)) : i \in RawItems}

Network(raises, class) ==
    [raises |-> raises, class |-> class,
     confidence |-> [t \in Texts |-> Fin(7, 8)]]

\* a network that fails, and one that finds the untitled text neutral
\* and the other negative
Networks ==
    {Network(TRUE, [t \in Texts |-> 1]),
     Network(FALSE,
             [t \in Texts |->
                 IF t = build_text_from_article(article_of(NewsList[2]))
                 THEN 1 ELSE 0])}

NoRun ==
    [query |-> None, calls |-> <<>>, sections |-> {},
     previous_key |-> None, dropped |-> FALSE, cleared |-> TRUE, chart |-> "none", total |-> None, percent |-> None]

InitApp ==
    /\ ss = NoSession
    /\ run = NoRun
    /\ prov = [f \in CachedFields |-> None]
    /\ pc = "app"
    /\ heap = <<>> /\ ret = NoResult
    /\ fetch = <<>> /\ fetched = <<>>

\* the end of the script: the session it leaves and what it did
Finish(c, inp) ==
    /\ ss' = c.ss
    /\ run' = [query |-> Some(<<inp.ticker, inp.period, inp.interval>>),
               calls |-> c.calls, sections |-> c.sections,
               previous_key |-> c.previous_key, dropped |-> c.dropped,
               cleared |-> c.cleared,
               chart |-> c.chart, total |-> c.total,
               percent |-> c.percent]
    /\ prov' = [f \in CachedFields |->
                   IF c.ss[f] = None THEN None
                   ELSE IF f \in c.assigned
                   THEN Some(<<inp.ticker, inp.period, inp.interval>>)
                   ELSE prov[f]]
    /\ UNCHANGED <<heap, pc, ret, fetch, fetched>>

Script5(c, inp) ==
    \E net \in IF needs_sentiment(c, inp) THEN Networks ELSE {None} :
        Finish(module5(c, inp, net), inp)

Script4(c, inp) ==
    \E env \in IF inp.show_news /\ needs_news(c.ss) THEN NewsEnvs
               ELSE {None} :
        Script5(module4(c, inp, env), inp)

Script1(c, inp) ==
    \E stock \in IF needs_stock(c, inp) THEN StockOutcomes ELSE {None} :
        Script4(module3(module2(module1(c, inp, stock), inp), inp), inp)

\* the values of a checkbox; one that the script reads only when other
\* boxes are checked is left checked while they are not
Checkbox(read) == IF read THEN BOOLEAN ELSE {TRUE}

\* one run of the page script, from the widgets to the footer; the
\* slider exists only while the news section is shown
Rerun ==
    /\ pc = "app"
    /\ \E ticker \in Tickers, period \in Periods, interval \in Intervals,
          show_data \in BOOLEAN, show_news \in BOOLEAN :
          \E show_kpi \in Checkbox(show_data),
             show_sentiment \in Checkbox(show_news),
             max_news_items \in IF show_news THEN Sliders ELSE {0} :
          \E show_charts \in Checkbox(show_data /\ show_kpi) :
              Script1(begin_run(ss, cache_key(ticker, period, interval)),
                      [ticker |-> ticker, period |-> period,
                       interval |-> interval, show_data |-> show_data,
                       show_kpi |-> show_kpi, show_charts |-> show_charts,
                       show_news |-> show_news,
                       show_sentiment |-> show_sentiment,
                       max_news_items |-> max_news_items])

NextApp == Rerun

SpecApp == InitApp /\ [][NextApp]_vars

\* ---- claims on the page script
\* the cache key of the last run
RunKey == cache_key(run.query[1][1], run.query[1][2], run.query[1][3])

\* the last run began under another key than the run before it
KeyChanged == run.query # None /\ run.previous_key # Some(RunKey)

\* the step is a run under the key of the run before
SameKeyRun == pc = "app" /\ ss'.last_cache_key = ss.last_cache_key

Calls(r, name) == Cardinality({i \in 1..Len(r.calls) : r.calls[i] = name})

\* C15: a run whose key differs from last_cache_key empties the five
\* cached values and stores the new key before MODULE 1 begins; so after
\* any runs, last_cache_key is the key of the last run and every cached
\* value that is not None was produced in a run under that very ticker,
\* period and interval.
C15_CacheFollowsKey ==
    /\ KeyChanged => run.cleared
    /\ run.query # None => ss.last_cache_key = Some(RunKey)
    /\ \A f \in CachedFields : ss[f] # None => prov[f] = run.query

\* a run under a new key that dropped cached values and cached its own
C15_Witness ==
    /\ KeyChanged /\ run.previous_key # None /\ run.dropped
    /\ ss.stock_df # None /\ ss.news_articles # None
    /\ prov["stock_df"] = Some(<<"A_5d", "5d", "1d">>)
    /\ ss.last_cache_key = Some("A_5d_5d_1d")

\* C16: compute_kpis is called at most once in a run, and once it has
\* returned for the cached stock table no run under the same key calls
\* it again: such runs leave metrics_dict and metrics_df as they are.
C16_KpisMemoized ==
    [][pc = "app" =>
          /\ Calls(run', "compute_kpis") <= 1
          /\ (ss.metrics_dict # None /\ SameKeyRun) =>
                 /\ Calls(run', "compute_kpis") = 0
                 /\ ss'.metrics_dict = ss.metrics_dict
                 /\ ss'.metrics_df = ss.metrics_df
                 /\ ss'.stock_df = ss.stock_df
          /\ (Calls(run', "compute_kpis") = 1 /\ ss'.metrics_dict # None) =>
                 ss.metrics_dict = None \/ ~SameKeyRun]_vars

\* the KPI section shown again under the same key, from the cache
C16_Witness ==
    /\ ~KeyChanged /\ "kpi" \in run.sections
    /\ Calls(run, "compute_kpis") = 0
    /\ ss.metrics_dict # None
    /\ ~IsNaN(ss.metrics_dict[1].avg_close)

\* C17: whenever metrics_df is cached, stock_df is cached and has rows,
\* metrics_dict and metrics_df are what compute_kpis gives for that very
\* stock_df, and the Date column of stock_df is as long as metrics_df, so
\* attaching it in the chart section never fails.
C17_MetricsMatchStock ==
    /\ ss.metrics_df # None =>
           /\ ss.stock_df # None
           /\ ~empty(ss.stock_df[1])
           /\ compute_kpis(<<ss.stock_df[1]>>, 1).status = "returned"
           /\ ss.metrics_dict =
                  Some(compute_kpis(<<ss.stock_df[1]>>, 1).metrics_dict)
           /\ ss.metrics_df =
                  Some(compute_kpis(<<ss.stock_df[1]>>, 1).heap[
                           compute_kpis(<<ss.stock_df[1]>>, 1).final_df])
           /\ Len(ss.stock_df[1].data["Date"]) = len(ss.metrics_df[1])
    /\ run.chart # "error"

\* charts drawn from metrics cached by an earlier run
C17_Witness ==
    /\ ss.metrics_df # None /\ len(ss.metrics_df[1]) = 3
    /\ run.chart = "rendered"
    /\ Calls(run, "compute_kpis") = 0

\* MODULE 1 of the step's run finds no stock table, or an empty one
StockMissing == ~SameKeyRun \/ ss.stock_df = None \/ empty(ss.stock_df[1])

\* the cached news list outlives every run under the same key
NewsKept ==
    (ss.news_articles # None /\ SameKeyRun) =>
        /\ Calls(run', "fetch_news") = 0
        /\ ss'.news_articles = ss.news_articles

\* C18 as stated: once fetch_news has returned under the current key, be
\* it with an empty list, no run under the same key calls it again and the
\* list stays; whereas a stock_df that is None or empty is fetched again
\* on every run.
C18_AsStated ==
    [][pc = "app" =>
          /\ NewsKept
          /\ Calls(run', "fetch_news") <= 1
          /\ StockMissing => Calls(run', "stock_data") = 1]_vars

\* C18, amended: a stock_df that is None or empty is fetched again on
\* every run that shows the Market Data section (and on no other run);
\* the rest as stated.
C18_NewsFetchedOnce ==
    [][pc = "app" =>
          /\ NewsKept
          /\ Calls(run', "fetch_news") <= 1
          /\ (StockMissing /\ "data" \in run'.sections) =>
                 Calls(run', "stock_data") = 1
          /\ "data" \notin run'.sections =>
                 Calls(run', "stock_data") = 0]_vars

\* an empty list kept by a run that shows the news under the same key,
\* while the same run fetches the missing stock table once more
C18_Witness ==
    /\ ~KeyChanged /\ "news" \in run.sections
    /\ ss.news_articles = Some(<<>>)
    /\ Calls(run, "fetch_news") = 0
    /\ Calls(run, "stock_data") = 1
    /\ ss.stock_df = None

\* the fields of an article that fetch_news gives
Base(a) ==
    [title |-> a.title, publisher |-> a.publisher, summary |-> a.summary,
     link |-> a.link, published |-> a.published]

\* C19: whenever a run computes the BUY/HOLD/SELL percentages, total is
\* the length of sentiment_articles and at least 1, so no division by
\* zero occurs; and whenever sentiment_articles is cached, news_articles
\* is cached and not empty, and sentiment_articles holds one enriched
\* copy of each of its articles, in the same order.
C19_SentimentMatchesNews ==
    /\ run.total # None =>
           /\ ss.sentiment_articles # None
           /\ run.total = Some(Len(ss.sentiment_articles[1]))
           /\ run.total[1] >= 1
           /\ run.percent # None
    /\ ss.sentiment_articles # None =>
           /\ ss.news_articles # None
           /\ ss.news_articles[1] # <<>>
           /\ Len(ss.sentiment_articles[1]) = Len(ss.news_articles[1])
           /\ \A i \in 1..Len(ss.news_articles[1]) :
                  /\ Base(ss.sentiment_articles[1][i])
                         = ss.news_articles[1][i]
                  /\ ss.sentiment_articles[1][i].sentiment
                         \in {"BUY", "HOLD", "SELL"}

\* percentages of two articles, one HOLD and one SELL, from the cache
C19_Witness ==
    /\ run.total = Some(2)
    /\ Calls(run, "analyze_articles") = 0
    /\ run.percent # None
    /\ run.percent[1]["HOLD"] = 50
    /\ run.percent[1]["SELL"] = 50
    /\ run.percent[1]["BUY"] = 0

====
